---------------------------- MODULE Spec2Model ----------------------------
(***************************************************************************)
(* A model of src/gui.py: the arm control GUI (ArmControlGUI).             *)
(*                                                                         *)
(* Two threads run the program.  The GUI thread runs the Qt event loop:    *)
(* the widget callbacks, reset_all, the two timers (update_output every    *)
(* 50 ms, update_gamepad every 100 ms) and closeEvent.  Qt runs one        *)
(* handler at a time, so a handler starts only when the GUI thread is      *)
(* idle (gpc = "idle").  The connection thread runs connect_websocket and, *)
(* inside run_forever, the callbacks on_open, on_error and on_close.       *)
(* The two threads share ws, ws_connected and shutting_down, without a     *)
(* lock: every read and write of them is a step of its own, so that the    *)
(* threads interleave between them.                                        *)
(*                                                                         *)
(* The websocket library, the remote endpoint, the gamepad device and the  *)
(* operator are the environment: what they do is a nondeterministic choice.*)
(* Widget state that never flows back into the program (labels, the        *)
(* checked state of buttons, the plot) is left out; the two sliders are    *)
(* kept, because a slider calls back into the program when its value       *)
(* changes.                                                                *)
(***************************************************************************)
EXTENDS Integers, Sequences, FiniteSets, TLC

\* ------------------------------------------------------------- bounds
\* The operator stops touching the controls once this many snapshots
\* have been dispatched.
MaxDispatch == 2
\* The gamepad clock (pygame.time.get_ticks, in ms) is explored up to here.
MaxClock == 50

\* The same clock where whole periods of the gamepad timer pass.
MaxPadClock == 500
\* on_message is explored for this many inbound messages.
MaxInbound == 2
\* The nesting depth beyond which json.loads raises RecursionError (in the
\* interpreter about its recursion limit, 1000), scaled down.
JsonDepthLimit == 2

\* ---------------------------------------------------- program constants
MaxPwm == 1023
MaxServo == 180
ServoCenter == 90
PwmStep == 10
ServoStep == 1
GamepadMinInterval == 50
GamepadTimerInterval == 100
\* Granularity of the modelled clock, in ms.
TimeStep == GamepadMinInterval \div 2

\* Python's None (last_values before the first dispatch).
None == <<>>

Min(a, b) == IF a < b THEN a ELSE b
Max(a, b) == IF a > b THEN a ELSE b

VARIABLES
    \* input state (ArmControlGUI.__init__, lines 55-68)
    gripper_state, roller_state, servo_angle, shared_pwm,
    base_state, shoulder_state, elbow_state,
    last_values,
    \* the values the two QSliders hold (create_pwm_slider)
    shared_pwm_slider, servo_slider,
    \* gamepad (lines 47-53, 95-98)
    joystick, prev_buttons, last_gamepad_update, clock,
    \* history: the D-pad position at the last processed poll
    last_hat,
    \* link state shared by the two threads (lines 71-73)
    ws, ws_connected, shutting_down,
    \* the GUI thread: where it is, and update_output's local `values`
    gpc, values,
    \* the connection thread: where it is, and the socket of self.ws
    cpc, sock,
    \* what on_message has logged (lines 102-110)
    logged,
    \* history: the connection of the current WebSocketApp has reported an
    \* error, a close or a failed write
    faulted,
    \* history: messages written on the current connection, command
    \* snapshots written over the whole run, snapshots dispatched
    wire, sent, dispatched

inputVars == <<gripper_state, roller_state, servo_angle, shared_pwm,
               base_state, shoulder_state, elbow_state,
               shared_pwm_slider, servo_slider>>
padVars == <<joystick, prev_buttons, last_gamepad_update, clock, last_hat>>
linkVars == <<ws, ws_connected, shutting_down, cpc, sock, wire, logged,
               faulted>>
tickVars == <<last_values, gpc, values, sent, dispatched>>
vars == <<inputVars, padVars, linkVars, tickVars>>


\* ------------------------------------------------- Arm Command Model
\* A slip in get_direction_and_value: Stop keeps the magnitude.
get_direction_and_value_stop_keeps(state) ==
    IF state = 1 THEN <<1, shared_pwm>> ELSE <<0, shared_pwm>>

\* get_direction_and_value (lines 381-387)
get_direction_and_value(state) ==
    IF state = 1 THEN <<1, shared_pwm>>
    ELSE IF state = 2 THEN <<0, shared_pwm>>
    ELSE <<0, 0>>

\* get_current_values (lines 389-397)
get_current_values ==
    <<gripper_state, roller_state, servo_angle,
      get_direction_and_value(elbow_state),
      get_direction_and_value(shoulder_state),
      get_direction_and_value(base_state)>>

\* json.dumps(values) (line 158): the text frame that carries the list.
\* A frame is a pair <<kind, body>>; the encoding of a list of integers is
\* one-to-one, so the body is kept as the list it encodes.
json_dumps(message) == <<"json", message>>
HandshakeMessage == <<"text", "ARM GUI Connected!">>
DisconnectMessage == <<"text", "ARM GUI Disconnecting...">>
IsCommand(frame) == frame[1] = "json"
IsHandshake(frame) == frame[1] = "text" /\ frame[2] = "ARM GUI Connected!"

\* ---------------------------------------------------- Input Aggregator
\* The GUI thread is between handlers, and the operator is still active.
OperatorMayAct == gpc = "idle" /\ Len(dispatched) < MaxDispatch

\* QSlider.setValue as create_pwm_slider configures it (lines 255-265):
\* the value is forced into [minimum, maximum]; valueChanged is emitted,
\* and the callback stores the value, only when the value changes.
SliderValue(val, min_val, max_val) == Max(min_val, Min(max_val, val))

\* The shared PWM slider is set to val (lines 181, 261-263).
SetSharedPwmSlider(val) ==
    /\ OperatorMayAct
    /\ LET v == SliderValue(val, 0, MaxPwm) IN
       /\ v # shared_pwm_slider
       /\ shared_pwm_slider' = v
       /\ shared_pwm' = v
    /\ UNCHANGED <<gripper_state, roller_state, servo_angle, base_state,
                   shoulder_state, elbow_state, servo_slider>>
    /\ UNCHANGED <<padVars, linkVars, tickVars>>

\* The wrist servo slider is set to val (lines 190, 261-263).
SetServoSlider(val) ==
    /\ OperatorMayAct
    /\ LET v == SliderValue(val, 0, MaxServo) IN
       /\ v # servo_slider
       /\ servo_slider' = v
       /\ servo_angle' = v
    /\ UNCHANGED <<gripper_state, roller_state, shared_pwm, base_state,
                   shoulder_state, elbow_state, shared_pwm_slider>>
    /\ UNCHANGED <<padVars, linkVars, tickVars>>

\* set_motor_state (lines 367-373); the FWD and BWD buttons call it with
\* 1 and 2 (lines 289, 295).
set_motor_state(motor_type, state) ==
    /\ OperatorMayAct
    /\ base_state' = IF motor_type = "base" THEN state ELSE base_state
    /\ shoulder_state' =
          IF motor_type = "shoulder" THEN state ELSE shoulder_state
    /\ elbow_state' = IF motor_type = "elbow" THEN state ELSE elbow_state
    /\ UNCHANGED <<gripper_state, roller_state, servo_angle, shared_pwm,
                   shared_pwm_slider, servo_slider>>
    /\ UNCHANGED <<padVars, linkVars, tickVars>>

\* set_gripper_roller_state (lines 375-379); the Open, Close and Stop
\* buttons call it with 2, 1 and 0 (lines 328, 334, 340).
set_gripper_roller_state(control_type, state) ==
    /\ OperatorMayAct
    /\ gripper_state' =
          IF control_type = "gripper" THEN state ELSE gripper_state
    /\ roller_state' =
          IF control_type = "roller" THEN state ELSE roller_state
    /\ UNCHANGED <<servo_angle, shared_pwm, base_state, shoulder_state,
                   elbow_state, shared_pwm_slider, servo_slider>>
    /\ UNCHANGED <<padVars, linkVars, tickVars>>

\* A reset_all without lines 405-407: the end effector keeps its modes.
reset_all_leaves_effector ==
    /\ OperatorMayAct
    /\ base_state' = 0
    /\ shoulder_state' = 0
    /\ elbow_state' = 0
    /\ servo_angle' = ServoCenter
    /\ shared_pwm' = 0
    /\ servo_slider' = SliderValue(ServoCenter, 0, MaxServo)
    /\ shared_pwm_slider' = SliderValue(0, 0, MaxPwm)
    /\ UNCHANGED <<gripper_state, roller_state>>
    /\ UNCHANGED <<padVars, linkVars, tickVars>>

\* reset_all (lines 399-432): the fields are reset, then every slider is
\* set (the servo slider to 90, the other to 0), which stores the same
\* values again through the sliders' callbacks.
reset_all ==
    /\ OperatorMayAct
    /\ base_state' = 0
    /\ shoulder_state' = 0
    /\ elbow_state' = 0
    /\ gripper_state' = 0
    /\ roller_state' = 0
    /\ servo_angle' = ServoCenter
    /\ shared_pwm' = 0
    /\ servo_slider' = SliderValue(ServoCenter, 0, MaxServo)
    /\ shared_pwm_slider' = SliderValue(0, 0, MaxPwm)
    /\ UNCHANGED <<padVars, linkVars, tickVars>>

\* cycle_motor_state (lines 614-618)
cycle_motor_state(current_state) == (current_state + 1) % 3

\* A trigger or bumper step that always moves by one.
PadStep_by_one(cur, up, down, step, max_val) ==
    LET a == IF up THEN Min(max_val, cur + 1) ELSE cur
    IN  IF down THEN Max(0, a - 1) ELSE a

\* A trigger or bumper step without the min and max of lines 541-563.
PadStep_unclamped(cur, up, down, step, max_val) ==
    LET a == IF up THEN cur + step ELSE cur
    IN  IF down THEN a - step ELSE a

\* One trigger or bumper step of update_gamepad (lines 540-567): the
\* field after `up` (raise by step, at most max_val) and then `down`
\* (lower by step, at least 0) have been looked at.
PadStep(cur, up, down, step, max_val) ==
    LET a == IF up THEN Min(max_val, cur + step) ELSE cur
    IN  IF down THEN Max(0, a - step) ELSE a

\* A test of the button's level alone, without prev_buttons.
Pressed_level(buttons, i) == i \in buttons

\* A button is pressed now and was not at the last processed poll.
Pressed(buttons, i) == i \in buttons /\ i \notin prev_buttons

\* A poll that is never skipped.
RateLimited_never == FALSE

\* The test of lines 532-535: less than 50 ms have passed since the last
\* processed poll, and update_gamepad returns.
RateLimited == clock - last_gamepad_update < GamepadMinInterval

\* update_gamepad with a joystick (lines 515-608).  buttons is the set of
\* indices whose button is down; hat_state is the D-pad pair.
update_gamepad(buttons, hat_state) ==
    /\ gpc = "idle"
    /\ joystick
    /\ IF RateLimited
       THEN UNCHANGED <<inputVars, prev_buttons, last_gamepad_update,
                        last_hat>>
       ELSE
         LET pwm == PadStep(shared_pwm, 7 \in buttons, 6 \in buttons,
                            PwmStep, MaxPwm)
             angle == PadStep(servo_angle, 5 \in buttons, 4 \in buttons,
                              ServoStep, MaxServo)
             \* setValue is called only in a branch that changed the field
             pwmUp == 7 \in buttons /\ Min(MaxPwm, shared_pwm + PwmStep) # shared_pwm
             pwmDown == 6 \in buttons /\ pwm #
                          (IF 7 \in buttons THEN Min(MaxPwm, shared_pwm + PwmStep)
                           ELSE shared_pwm)
             angleUp == 5 \in buttons /\ Min(MaxServo, servo_angle + ServoStep) # servo_angle
             angleDown == 4 \in buttons /\ angle #
                          (IF 5 \in buttons THEN Min(MaxServo, servo_angle + ServoStep)
                           ELSE servo_angle)
             gripHat == IF hat_state[2] = 1 THEN 2
                        ELSE IF hat_state[2] = -1 THEN 1 ELSE gripper_state
             rollHat == IF hat_state[1] = 1 THEN 2
                        ELSE IF hat_state[1] = -1 THEN 1 ELSE roller_state
             reset == Pressed(buttons, 9)
         IN
         /\ last_gamepad_update' = clock
         /\ shared_pwm' = IF reset THEN 0 ELSE pwm
         /\ shared_pwm_slider' =
               IF reset THEN SliderValue(0, 0, MaxPwm)
               ELSE IF pwmUp \/ pwmDown THEN SliderValue(pwm, 0, MaxPwm)
               ELSE shared_pwm_slider
         /\ servo_angle' = IF reset THEN ServoCenter ELSE angle
         /\ servo_slider' =
               IF reset THEN SliderValue(ServoCenter, 0, MaxServo)
               ELSE IF angleUp \/ angleDown THEN SliderValue(angle, 0, MaxServo)
               ELSE servo_slider
         /\ base_state' =
               IF reset THEN 0
               ELSE IF Pressed(buttons, 1) THEN cycle_motor_state(base_state)
               ELSE base_state
         /\ shoulder_state' =
               IF reset THEN 0
               ELSE IF Pressed(buttons, 0) THEN cycle_motor_state(shoulder_state)
               ELSE shoulder_state
         /\ elbow_state' =
               IF reset THEN 0
               ELSE IF Pressed(buttons, 3) THEN cycle_motor_state(elbow_state)
               ELSE elbow_state
         /\ gripper_state' =
               IF reset \/ Pressed(buttons, 10) THEN 0 ELSE gripHat
         /\ roller_state' =
               IF reset \/ Pressed(buttons, 11) THEN 0 ELSE rollHat
         /\ prev_buttons' = buttons
         /\ last_hat' = hat_state
    /\ UNCHANGED <<joystick, clock, linkVars, tickVars>>

\* update_gamepad when reading the device raises (lines 521, 610-612).
update_gamepad_error ==
    /\ gpc = "idle"
    /\ joystick
    /\ joystick' = FALSE
    /\ UNCHANGED <<inputVars, prev_buttons, last_gamepad_update, clock,
                   last_hat, linkVars, tickVars>>

\* update_gamepad without a joystick (lines 506-513): a device that has
\* appeared is taken.
update_gamepad_probe ==
    /\ gpc = "idle"
    /\ ~joystick
    /\ joystick' = TRUE
    /\ UNCHANGED <<inputVars, prev_buttons, last_gamepad_update, clock,
                   last_hat, linkVars, tickVars>>

\* Time passes on the clock pygame.time.get_ticks reads.
ClockAdvance ==
    /\ clock + TimeStep <= MaxClock
    /\ clock' = clock + TimeStep
    /\ UNCHANGED <<inputVars, joystick, prev_buttons, last_gamepad_update,
                   last_hat, linkVars, tickVars>>

\* The gamepad timer's period (line 93) passes on that clock.
GamepadPeriodPasses ==
    /\ clock + GamepadTimerInterval <= MaxPadClock
    /\ clock' = clock + GamepadTimerInterval
    /\ UNCHANGED <<inputVars, joystick, prev_buttons, last_gamepad_update,
                   last_hat, linkVars, tickVars>>

\* ------------------------------------------------ Change-Gated Dispatcher
\* The last entry of dispatched with its result set.
Settle(result) ==
    [dispatched EXCEPT ![Len(dispatched)].result = result]

\* An update_output whose snapshot build clears the shared magnitude when
\* no axis moves.
update_output_build_normalises ==
    /\ gpc = "idle"
    /\ get_current_values # last_values
    /\ values' = get_current_values
    /\ dispatched' = Append(dispatched,
                            [values |-> get_current_values, result |-> "pending"])
    /\ gpc' = "send"
    /\ shared_pwm' = IF base_state = 0 /\ shoulder_state = 0 /\ elbow_state = 0
                     THEN 0 ELSE shared_pwm
    /\ UNCHANGED <<gripper_state, roller_state, servo_angle, base_state,
                   shoulder_state, elbow_state, shared_pwm_slider, servo_slider>>
    /\ UNCHANGED <<padVars, linkVars, last_values, sent>>

\* update_output without the test of line 454: every tick dispatches.
update_output_ungated ==
    /\ gpc = "idle"
    /\ values' = get_current_values
    /\ dispatched' = Append(dispatched,
                            [values |-> get_current_values, result |-> "pending"])
    /\ gpc' = "send"
    /\ UNCHANGED <<inputVars, padVars, linkVars, last_values, sent>>

\* update_output up to the call of send_websocket_message (lines 434-458):
\* the snapshot is built and compared with last_values; an equal one ends
\* the handler.
update_output ==
    /\ gpc = "idle"
    /\ get_current_values # last_values
    /\ values' = get_current_values
    /\ dispatched' = Append(dispatched,
                            [values |-> get_current_values, result |-> "pending"])
    /\ gpc' = "send"
    /\ UNCHANGED <<inputVars, padVars, linkVars, last_values, sent>>

\* send_websocket_message without the test of line 155: the write is
\* tried whatever the connection state.
send_check_untested ==
    /\ gpc = "send"
    /\ gpc' = "write"
    /\ UNCHANGED <<inputVars, padVars, linkVars, last_values, values, sent,
                   dispatched>>

\* send_websocket_message, the test of line 155; not connected, it
\* returns False (line 164).
send_check ==
    /\ gpc = "send"
    /\ IF ws_connected /\ ws # "None"
       THEN gpc' = "write" /\ UNCHANGED dispatched
       ELSE gpc' = "plot" /\ dispatched' = Settle("refused")
    /\ UNCHANGED <<inputVars, padVars, linkVars, last_values, values, sent>>

\* send_websocket_message, lines 157-160: self.ws.send(json.dumps(message))
\* writes the frame on the socket of the object self.ws names now, and the
\* call returns True.
send_write ==
    /\ gpc = "write"
    /\ sock = "open"
    /\ wire' = Append(wire, json_dumps(values))
    /\ sent' = Append(sent, values)
    /\ dispatched' = Settle("ok")
    /\ gpc' = "plot"
    /\ UNCHANGED <<inputVars, padVars, logged, ws, ws_connected, shutting_down, cpc,
                   sock, last_values, values>>
    /\ UNCHANGED faulted

\* A send_websocket_message without the try of line 156: what line 159
\* raises ends the tick.
send_raise_propagates ==
    /\ gpc = "write"
    /\ dispatched' = Settle("failed")
    /\ values' = None
    /\ gpc' = "idle"
    /\ UNCHANGED <<inputVars, padVars, ws, ws_connected, shutting_down, cpc,
                   sock, wire, logged, last_values, sent>>
    /\ faulted' = TRUE

\* send_websocket_message, line 159 raising: the socket is not open, or
\* the write on an open socket fails (a send timeout, a broken pipe).
send_raise ==
    /\ gpc = "write"
    /\ dispatched' = Settle("failed")
    /\ gpc' = "except"
    /\ UNCHANGED <<inputVars, padVars, ws, ws_connected, shutting_down, cpc,
                   sock, wire, logged, last_values, values, sent>>
    /\ faulted' = TRUE

\* A handler that tries the failed write once more before it gives up.
send_except_retries ==
    /\ gpc = "except"
    /\ ws_connected' = FALSE
    /\ IF sock = "open"
       THEN wire' = Append(wire, json_dumps(values)) /\ sent' = Append(sent, values)
       ELSE UNCHANGED <<wire, sent>>
    /\ gpc' = "plot"
    /\ UNCHANGED <<inputVars, padVars, logged, ws, shutting_down, cpc, sock,
                   last_values, values, dispatched>>
    /\ UNCHANGED faulted

\* send_websocket_message, the handler of lines 161-164.
send_except ==
    /\ gpc = "except"
    /\ ws_connected' = FALSE
    /\ gpc' = "plot"
    /\ UNCHANGED <<inputVars, padVars, logged, ws, shutting_down, cpc, sock, wire,
                   last_values, values, sent, dispatched>>
    /\ UNCHANGED faulted

\* An update_output that stores the baseline only when the send returned
\* True.
update_output_end_on_success ==
    /\ gpc = "plot"
    /\ last_values' =
          IF dispatched[Len(dispatched)].result = "ok" THEN values
          ELSE last_values
    /\ values' = None
    /\ gpc' = "idle"
    /\ UNCHANGED <<inputVars, padVars, linkVars, sent, dispatched>>

\* An update_output without line 462: the baseline is never stored.
update_output_end_keeps_baseline ==
    /\ gpc = "plot"
    /\ values' = None
    /\ gpc' = "idle"
    /\ UNCHANGED <<inputVars, padVars, linkVars, last_values, sent, dispatched>>

\* update_output after the send (lines 460-462): the pose is drawn and
\* the snapshot becomes the baseline.
update_output_end ==
    /\ gpc = "plot"
    /\ last_values' = values
    /\ values' = None
    /\ gpc' = "idle"
    /\ UNCHANGED <<inputVars, padVars, linkVars, sent, dispatched>>

\* ------------------------------------------------------------- shutdown
\* closeEvent, lines 650-653.
closeEvent ==
    /\ gpc = "idle"
    /\ shutting_down' = TRUE
    /\ gpc' = IF ws_connected /\ ws # "None" THEN "close_send" ELSE "closed"
    /\ UNCHANGED <<inputVars, padVars, logged, ws, ws_connected, cpc, sock, wire,
                   last_values, values, sent, dispatched>>
    /\ UNCHANGED faulted

\* closeEvent, line 655: the notice is written, or the write raises and
\* the handler of lines 657-658 skips the close.
close_send ==
    /\ gpc = "close_send"
    /\ \/ /\ sock = "open"
          /\ wire' = Append(wire, DisconnectMessage)
          /\ gpc' = "close_close"
          /\ UNCHANGED faulted
       \/ /\ gpc' = "closed"
          /\ faulted' = TRUE
          /\ UNCHANGED wire
    /\ UNCHANGED <<inputVars, padVars, logged, ws, ws_connected, shutting_down, cpc,
                   sock, last_values, values, sent, dispatched>>

\* closeEvent, line 656: self.ws.close() closes an open socket, which
\* makes run_forever call on_close and return.
close_close ==
    /\ gpc = "close_close"
    /\ sock' = IF sock = "open" THEN "closing" ELSE sock
    /\ gpc' = "closed"
    /\ UNCHANGED <<inputVars, padVars, logged, ws, ws_connected, shutting_down, cpc,
                   wire, last_values, values, sent, dispatched>>
    /\ UNCHANGED faulted

\* sys.exit(app.exec_()) (line 669): the event loop has ended with the
\* window, the interpreter exits and the daemon thread (line 150) ends
\* with it.
ProcessExit ==
    /\ gpc = "closed"
    /\ cpc # "killed"
    /\ cpc' = "killed"
    /\ UNCHANGED <<inputVars, padVars, logged, ws, ws_connected, shutting_down, sock,
                   wire, tickVars>>
    /\ UNCHANGED faulted

\* -------------------------------------------------------- Resilient Link
\* connect_websocket, lines 128-136: a new WebSocketApp replaces self.ws
\* and run_forever starts to connect it.
connect_websocket ==
    /\ cpc = "connect"
    /\ ws' = "app"
    /\ sock' = "connecting"
    /\ wire' = <<>>
    /\ cpc' = "running"
    /\ UNCHANGED <<inputVars, padVars, logged, ws_connected, shutting_down, tickVars>>
    /\ faulted' = FALSE

\* The endpoint accepts: run_forever is about to call on_open.
ConnectionOpens ==
    /\ cpc = "running"
    /\ sock = "connecting"
    /\ sock' = "open"
    /\ cpc' = "on_open"
    /\ UNCHANGED <<inputVars, padVars, logged, ws, ws_connected, shutting_down, wire,
                   tickVars>>
    /\ UNCHANGED faulted

\* The attempt fails, or the open connection breaks: run_forever will
\* call on_error, then on_close.
ConnectionFails ==
    /\ cpc \in {"running", "on_open", "handshake"}
    /\ sock \in {"connecting", "open"}
    /\ sock' = "error"
    /\ UNCHANGED <<inputVars, padVars, logged, ws, ws_connected, shutting_down, cpc,
                   wire, tickVars>>
    /\ UNCHANGED faulted

\* The endpoint closes the connection: run_forever will call on_close.
RemoteCloses ==
    /\ cpc \in {"running", "on_open", "handshake"}
    /\ sock = "open"
    /\ sock' = "closing"
    /\ UNCHANGED <<inputVars, padVars, logged, ws, ws_connected, shutting_down, cpc,
                   wire, tickVars>>
    /\ UNCHANGED faulted

\* on_open, lines 113-114.
on_open ==
    /\ cpc = "on_open"
    /\ ws_connected' = TRUE
    /\ cpc' = "handshake"
    /\ UNCHANGED <<inputVars, padVars, logged, ws, shutting_down, sock, wire,
                   tickVars>>
    /\ UNCHANGED faulted

\* on_open, line 115: ws.send("ARM GUI Connected!") writes the frame.
on_open_send ==
    /\ cpc = "handshake"
    /\ sock = "open"
    /\ wire' = Append(wire, HandshakeMessage)
    /\ cpc' = "running"
    /\ UNCHANGED <<inputVars, padVars, logged, ws, ws_connected, shutting_down, sock,
                   tickVars>>
    /\ UNCHANGED faulted

\* on_open, line 115 raising: the library catches what a callback raises;
\* depending on its version it only logs it (reported = FALSE) or also
\* calls on_error with it (lines 117-119).
on_open_send_raise(reported) ==
    /\ cpc = "handshake"
    /\ ws_connected' = IF reported THEN FALSE ELSE ws_connected
    /\ cpc' = "running"
    /\ UNCHANGED <<inputVars, padVars, logged, ws, shutting_down, sock, wire,
                   tickVars>>
    /\ faulted' = TRUE

\* ---- on_message (lines 102-110)
\* A message is the sequence of its characters.  json.loads is modelled on
\* the part of JSON made of brackets: a value is {} or [] or [value].
\* ParseValue gives the index after the value that starts at i, 0 when no
\* value starts there (JSONDecodeError), -1 when the nesting goes beyond
\* what the decoder can recurse (RecursionError).
RECURSIVE ParseValue(_, _, _)
ParseValue(message, i, depth) ==
    IF depth > JsonDepthLimit THEN -1
    ELSE IF i + 1 > Len(message) THEN 0
    ELSE IF message[i] = "{" THEN (IF message[i + 1] = "}" THEN i + 2 ELSE 0)
    ELSE IF message[i] = "[" THEN
        IF message[i + 1] = "]" THEN i + 2
        ELSE LET r == ParseValue(message, i + 1, depth + 1) IN
             IF r <= 0 THEN r
             ELSE IF r <= Len(message) /\ message[r] = "]" THEN r + 1
             ELSE 0
    ELSE 0

json_loads(message) ==
    LET r == ParseValue(message, 1, 1) IN
    IF r = -1 THEN "RecursionError"
    ELSE IF r = Len(message) + 1 THEN "data"
    ELSE "JSONDecodeError"

startswith(message, c) == message # <<>> /\ message[1] = c

\* What on_message does with a message: the line it logs, or the
\* exception that leaves it (line 110 catches JSONDecodeError only).
on_message_outcome(message) ==
    IF startswith(message, "[") \/ startswith(message, "{")
    THEN CASE json_loads(message) = "data" -> "Received from server"
           [] json_loads(message) = "JSONDecodeError" -> "Received text"
           [] OTHER -> "RecursionError"
    ELSE "Received"

\* on_message returns: the message has been logged.
on_message(message) ==
    /\ cpc = "running"
    /\ sock = "open"
    /\ Len(logged) < MaxInbound
    /\ on_message_outcome(message) # "RecursionError"
    /\ logged' = Append(logged, on_message_outcome(message))
    /\ UNCHANGED <<inputVars, padVars, ws, ws_connected, shutting_down, cpc,
                   sock, wire, tickVars>>
    /\ UNCHANGED faulted

\* on_message raises: the library catches what a callback raises and logs
\* it; depending on its version it also calls on_error with it (lines
\* 117-119).
on_message_raises(message, reported) ==
    /\ cpc = "running"
    /\ sock = "open"
    /\ Len(logged) < MaxInbound
    /\ on_message_outcome(message) = "RecursionError"
    /\ logged' = Append(logged, "error from callback")
    /\ ws_connected' = IF reported THEN FALSE ELSE ws_connected
    /\ UNCHANGED <<inputVars, padVars, ws, shutting_down, cpc, sock, wire,
                   tickVars>>
    /\ faulted' = (faulted \/ reported)

\* on_error, lines 117-119.
on_error ==
    /\ cpc = "running"
    /\ sock = "error"
    /\ ws_connected' = FALSE
    /\ sock' = "closing"
    /\ UNCHANGED <<inputVars, padVars, logged, ws, shutting_down, cpc, wire, tickVars>>
    /\ faulted' = TRUE

\* on_close, lines 121-123, after which run_forever returns (line 136).
on_close ==
    /\ cpc = "running"
    /\ sock = "closing"
    /\ ws_connected' = FALSE
    /\ sock' = "dead"
    /\ cpc' = "check"
    /\ UNCHANGED <<inputVars, padVars, logged, ws, shutting_down, wire, tickVars>>
    /\ faulted' = TRUE

\* A run_forever that raises and leaves its socket as it was.
run_forever_raises_leaves_open ==
    /\ cpc = "running"
    /\ cpc' = "except"
    /\ UNCHANGED <<inputVars, padVars, logged, ws, ws_connected, shutting_down, sock,
                   wire, tickVars>>
    /\ faulted' = TRUE

\* run_forever raises instead of returning (caught at line 145): no
\* callback has run.
run_forever_raises ==
    /\ cpc = "running"
    /\ sock' = "dead"
    /\ cpc' = "except"
    /\ UNCHANGED <<inputVars, padVars, logged, ws, ws_connected, shutting_down, wire,
                   tickVars>>
    /\ faulted' = TRUE

\* A loop that ends whenever run_forever returns.
check_shutting_down_always_breaks ==
    /\ cpc = "check"
    /\ cpc' = "done"
    /\ UNCHANGED <<inputVars, padVars, logged, ws, ws_connected, shutting_down, sock,
                   wire, tickVars>>
    /\ UNCHANGED faulted

\* connect_websocket, lines 138-142: the loop ends when shutting down.
check_shutting_down ==
    /\ cpc = "check"
    /\ cpc' = IF shutting_down THEN "done" ELSE "wait"
    /\ UNCHANGED <<inputVars, padVars, logged, ws, ws_connected, shutting_down, sock,
                   wire, tickVars>>
    /\ UNCHANGED faulted

\* connect_websocket, line 143: the 5 s wait ends and the loop goes round.
reconnect_wait ==
    /\ cpc = "wait"
    /\ cpc' = "connect"
    /\ UNCHANGED <<inputVars, padVars, logged, ws, ws_connected, shutting_down, sock,
                   wire, tickVars>>
    /\ UNCHANGED faulted

\* connect_websocket, lines 145-147: the handler's 5 s wait ends and the
\* loop goes round.
except_wait ==
    /\ cpc = "except"
    /\ cpc' = "connect"
    /\ UNCHANGED <<inputVars, padVars, logged, ws, ws_connected, shutting_down, sock,
                   wire, tickVars>>
    /\ UNCHANGED faulted

\* ------------------------------------------------------- specifications
\* The state after ArmControlGUI.__init__ (lines 37-98).  The sliders
\* start at the middle of their range (line 258), before their callback
\* is connected (line 265).
InitInput ==
    /\ gripper_state = 0
    /\ roller_state = 0
    /\ servo_angle = ServoCenter
    /\ shared_pwm = 0
    /\ base_state = 0
    /\ shoulder_state = 0
    /\ elbow_state = 0
    /\ shared_pwm_slider = (0 + MaxPwm) \div 2
    /\ servo_slider = (0 + MaxServo) \div 2

InitLink ==
    /\ last_values = None
    /\ ws = "None"
    /\ ws_connected = FALSE
    /\ shutting_down = FALSE
    /\ gpc = "idle"
    /\ values = None
    /\ cpc = "connect"
    /\ sock = "none"
    /\ wire = <<>>
    /\ logged = <<>>
    /\ faulted = FALSE
    /\ sent = <<>>
    /\ dispatched = <<>>

InitPad(present) ==
    /\ joystick = present
    /\ prev_buttons = {}
    /\ last_gamepad_update = 0
    /\ clock = 0
    /\ last_hat = <<0, 0>>

\* What the operator does in Spec: the shared PWM slider is moved to one of
\* these values, the FWD button of the base motor is clicked, Reset is
\* clicked.
LinkPwmInputs == {0, 300}
LinkAxes == {"base"}
LinkIntents == {1}

Driver ==
    \/ update_output
    \/ send_check
    \/ send_write
    \/ send_raise
    \/ send_except
    \/ update_output_end

Shutdown ==
    \/ closeEvent
    \/ close_send
    \/ close_close
    \/ ProcessExit

ConnectionThread ==
    \/ connect_websocket
    \/ on_open
    \/ on_open_send
    \/ \E reported \in BOOLEAN : on_open_send_raise(reported)
    \/ on_error
    \/ on_close
    \/ check_shutting_down
    \/ reconnect_wait
    \/ except_wait

Network ==
    \/ ConnectionOpens
    \/ ConnectionFails
    \/ RemoteCloses
    \/ run_forever_raises

LinkOperator ==
    \/ \E val \in LinkPwmInputs : SetSharedPwmSlider(val)
    \/ \E motor_type \in LinkAxes, state \in LinkIntents :
          set_motor_state(motor_type, state)
    \/ reset_all

\* The link and the dispatcher, with no gamepad attached.
Init == InitInput /\ InitLink /\ InitPad(FALSE)

Next == Driver \/ Shutdown \/ ConnectionThread \/ Network \/ LinkOperator

Spec == Init /\ [][Next]_vars

\* The fairness the scheduling gives: a thread that can take a step takes
\* one (the timers keep firing, the waits end), and a connection attempt
\* ends, one way or the other.  Nothing makes an open connection break,
\* and nothing makes the operator act.
AttemptEnds == sock = "connecting" /\ (ConnectionOpens \/ ConnectionFails)

FairSpec ==
    /\ Spec
    /\ WF_vars(Driver)
    /\ WF_vars(ConnectionThread)
    /\ WF_vars(AttemptEnds)

\* The link with inbound traffic: the messages the endpoint sends are
\* nested arrays up to one level beyond the decoder's limit, an object,
\* text that starts like JSON and is not, and plain text.
Nest(n) == [i \in 1..(2 * n) |-> IF i <= n THEN "[" ELSE "]"]
Messages ==
    {Nest(n) : n \in 1..(JsonDepthLimit + 1)}
        \cup {<<"{", "}">>, <<"[", "h">>, <<"{">>, <<"[", "]", "h">>,
              <<"h", "[", "]">>, <<>>}

Inbound ==
    \/ \E message \in Messages : on_message(message)
    \/ \E message \in Messages, reported \in BOOLEAN :
          on_message_raises(message, reported)

NextInbound == Driver \/ ConnectionThread \/ Network \/ Inbound

SpecInbound == Init /\ [][NextInbound]_vars

\* The input aggregator alone, with a gamepad: the values given to the
\* sliders (some outside their range), the buttons held at a poll (at
\* most one at a time) and the D-pad positions.
PwmInputs == {-1, 1024}
ServoInputs == {-1, 181}
Axes == {"base", "shoulder", "elbow"}
PadButtons == {0, 1, 3, 4, 5, 6, 7, 9, 10, 11}
PadButtonSets == {{}} \cup {{b} : b \in PadButtons}
PadHats == {<<0, 0>>, <<0, 1>>, <<0, -1>>, <<1, 0>>, <<-1, 0>>}

PadPolls == {<<b, <<0, 0>>>> : b \in PadButtonSets}
               \cup {<<{}, h>> : h \in PadHats}

InputOperator ==
    \/ \E val \in PwmInputs : SetSharedPwmSlider(val)
    \/ \E val \in ServoInputs : SetServoSlider(val)
    \/ \E motor_type \in Axes, state \in {1, 2} :
          set_motor_state(motor_type, state)
    \/ \E control_type \in {"gripper", "roller"}, state \in {0, 1, 2} :
          set_gripper_roller_state(control_type, state)
    \/ reset_all

Gamepad ==
    \/ \E poll \in PadPolls : update_gamepad(poll[1], poll[2])
    \/ update_gamepad_error
    \/ update_gamepad_probe
    \/ ClockAdvance

InitAggregator == InitInput /\ InitLink /\ \E present \in BOOLEAN : InitPad(present)

NextInput == InputOperator \/ Gamepad

SpecInput == InitAggregator /\ [][NextInput]_vars

\* The gamepad over several periods of its timer: the motor buttons B, Y
\* and X and the stop buttons L and R, one at a time, or the D-pad; in
\* between the operator may click the Stop button of the gripper or of
\* the roller.  No manual control touches the axes here.
CyclePolls ==
    {<<{b}, <<0, 0>>>> : b \in {1, 0, 3, 10, 11}}
        \cup {<<{}, h>> : h \in PadHats}

NextPad ==
    \/ \E poll \in CyclePolls : update_gamepad(poll[1], poll[2])
    \/ update_gamepad_error
    \/ update_gamepad_probe
    \/ GamepadPeriodPasses
    \/ \E control_type \in {"gripper", "roller"} :
          set_gripper_roller_state(control_type, 0)

InitGamepad == InitInput /\ InitLink /\ InitPad(TRUE)

SpecPad == InitGamepad /\ [][NextPad]_vars

\* The trigger and bumper steps alone: the shared magnitude is drawn from
\* its whole range with the wrist at the centre, or the wrist angle from
\* its whole range with the magnitude at 0 (the values the sliders can
\* have left), and the gamepad is polled with the triggers and bumpers.
StepPolls ==
    {<<b, <<0, 0>>>> : b \in {{}, {7}, {6}, {5}, {4}, {6, 7}, {4, 5}}}

InitStep ==
    /\ \/ shared_pwm \in 0..MaxPwm /\ servo_angle = ServoCenter
       \/ shared_pwm = 0 /\ servo_angle \in 0..MaxServo
    /\ shared_pwm_slider = shared_pwm
    /\ servo_slider = servo_angle
    /\ gripper_state = 0 /\ roller_state = 0
    /\ base_state = 0 /\ shoulder_state = 0 /\ elbow_state = 0
    /\ InitLink
    /\ InitPad(TRUE)

NextStep ==
    \/ \E poll \in StepPolls : update_gamepad(poll[1], poll[2])
    \/ ClockAdvance

SpecStep == InitStep /\ [][NextStep]_vars

\* The rate limit: the right trigger or the B button is held at polls that
\* come a quarter period, a whole period or no time at all after the poll
\* before.
LimitPolls == {<<b, <<0, 0>>>> : b \in {{}, {7}, {1}}}

NextLimit ==
    \/ \E poll \in LimitPolls : update_gamepad(poll[1], poll[2])
    \/ ClockAdvance
    \/ GamepadPeriodPasses

SpecLimit == InitGamepad /\ [][NextLimit]_vars

\* The derivation alone: the input fields are drawn from their ranges (the
\* whole range of the shared magnitude, every axis intent) and the driver
\* tick builds the snapshot, with the link still down.
DeriveRest == {<<0, 0, 90>>, <<1, 2, 0>>, <<2, 1, 180>>}

InitDerive ==
    /\ shared_pwm \in 0..MaxPwm
    /\ shared_pwm_slider = shared_pwm
    /\ base_state \in 0..2
    /\ shoulder_state \in 0..2
    /\ elbow_state \in 0..2
    /\ \E rest \in DeriveRest :
          /\ gripper_state = rest[1]
          /\ roller_state = rest[2]
          /\ servo_angle = rest[3]
          /\ servo_slider = rest[3]
    /\ InitLink
    /\ InitPad(FALSE)

NextDerive == update_output \/ send_check \/ update_output_end

SpecDerive == InitDerive /\ [][NextDerive]_vars

\* ================================================================ claims
InTick == gpc \in {"send", "write", "except", "plot"}
LastDispatched ==
    IF dispatched = <<>> THEN None ELSE dispatched[Len(dispatched)].values
LastResult ==
    IF dispatched = <<>> THEN "none" ELSE dispatched[Len(dispatched)].result
WireCommands == SelectSeq(wire, IsCommand)
Connected == ws_connected /\ sock = "open"

\* C1: a driver tick dispatches (calls send, then redraws the pose) exactly
\* when the snapshot it builds differs from the last snapshot dispatched,
\* none at first; the snapshot handed over is the one just built, each
\* dispatch makes one send call, and after a dispatch a tick with no input
\* change in between dispatches nothing.
C1_ChangeGated ==
    /\ gpc = "idle" =>
          (ENABLED update_output <=> get_current_values # LastDispatched)
    /\ InTick => values = get_current_values /\ values = LastDispatched
    /\ gpc \in {"send", "write"} <=> LastResult = "pending"

C1_Witness ==
    /\ gpc = "idle"
    /\ Len(dispatched) = 2
    /\ dispatched[1].values # dispatched[2].values
    /\ get_current_values = last_values

\* C2: once the link is connected, the remote comes to hold the current
\* snapshot with no further operator input (unless the link goes down
\* again or the program shuts down), also when that snapshot was first
\* dispatched while the link was down.
RemoteHoldsCurrent == sent # <<>> /\ sent[Len(sent)] = get_current_values
C2_Resupplied ==
    (Connected /\ ~shutting_down)
        ~> (RemoteHoldsCurrent \/ ~Connected \/ shutting_down)

\* C3: on every connection the handshake message is written at most once
\* and before every command: no command is written to a connection that
\* has not had its handshake.
C3_HandshakeFirst ==
    /\ Cardinality({i \in 1..Len(wire) : IsHandshake(wire[i])}) <= 1
    /\ \A i \in 1..Len(wire) :
          IsCommand(wire[i]) => \E j \in 1..(i - 1) : IsHandshake(wire[j])

\* C4: a send issued while the link is not connected returns False at once:
\* nothing is written, nothing is kept for later, and the connection state
\* stays as it was.
C4_NotConnectedNoOp ==
    [][(gpc = "send" /\ gpc' # gpc /\ ~(ws_connected /\ ws # "None")) =>
          /\ gpc' = "plot"
          /\ LastResult' = "refused"
          /\ UNCHANGED <<wire, sent, ws, ws_connected, sock, cpc>>]_vars

C4_Witness == gpc = "plot" /\ LastResult = "refused" /\ wire = <<>>

\* C5: the commands written are, in order, exactly the dispatched snapshots
\* whose send returned True: none is written twice or out of order, and
\* one whose send failed or was refused is never written.
AcceptedValues ==
    LET ok == SelectSeq(dispatched, LAMBDA d : d.result = "ok")
    IN  [i \in 1..Len(ok) |-> ok[i].values]
C5_WireFollowsDispatch ==
    /\ sent = AcceptedValues
    /\ Len(WireCommands) <= Len(sent)
    /\ \A i \in 1..Len(WireCommands) :
          WireCommands[i][2] = sent[Len(sent) - Len(WireCommands) + i]

C5_Witness ==
    /\ Len(dispatched) = 2
    /\ dispatched[1].result \in {"failed", "refused"}
    /\ dispatched[2].result = "ok"
    /\ gpc = "idle"

\* C6: while the program is not shutting down, after a connection drop, a
\* failed attempt or an exception the loop starts a new attempt; when an
\* attempt succeeds on_open makes the link Connected, and a send issued
\* while it is Connected is tried and, when its write goes through,
\* returns True with the snapshot written.
LinkDown == sock \in {"error", "closing", "dead"}
C6_Reconnects ==
    /\ (LinkDown /\ ~shutting_down) ~> (sock = "connecting" \/ shutting_down)
    /\ [][(cpc = "on_open" /\ cpc' = "handshake") => ws_connected']_vars
    /\ [][(gpc = "send" /\ gpc' # gpc /\ ws_connected /\ ws # "None") =>
             gpc' = "write"]_vars
    /\ [][(gpc = "write" /\ gpc' = "plot") =>
             (LastResult' = "ok" /\ sent' = Append(sent, values))]_vars

\* The second command of the run is the first of the current connection:
\* the link came back and took a send.
C6_Witness ==
    /\ Len(sent) = 2
    /\ Len(WireCommands) = 1
    /\ IsHandshake(wire[1])
    /\ Connected
    /\ ~shutting_down

\* C7: after a failed write a new connection attempt follows (the program
\* not shutting down).
C7_FailedWriteReconnects ==
    (gpc = "except" /\ ~shutting_down)
        ~> (sock = "connecting" \/ shutting_down)

\* C8: once shutting_down is set, the loop, having made an attempt before,
\* starts no new attempt and the link does not become Connected again.
C8_StopsRetrying ==
    [][(shutting_down /\ ws # "None") =>
          /\ ~(cpc = "connect" /\ cpc' = "running")
          /\ ~(~ws_connected /\ ws_connected')]_vars

\* C9: the snapshot the tick builds is [gripper, roller, wrist, elbow pair,
\* shoulder pair, base pair], and an axis pair is (0,0) for Stop whatever
\* the magnitude, (1,m) for Forward and (0,m) for Backward.
AxisPair(intent, m) ==
    CASE intent = 0 -> <<0, 0>>
      [] intent = 1 -> <<1, m>>
      [] intent = 2 -> <<0, m>>
C9_Derivation ==
    InTick =>
        /\ Len(values) = 6
        /\ values[1] = gripper_state
        /\ values[2] = roller_state
        /\ values[3] = servo_angle
        /\ values[4] = AxisPair(elbow_state, shared_pwm)
        /\ values[5] = AxisPair(shoulder_state, shared_pwm)
        /\ values[6] = AxisPair(base_state, shared_pwm)

C9_Witness ==
    /\ gpc = "plot"
    /\ shared_pwm = MaxPwm
    /\ elbow_state = 0 /\ shoulder_state = 2 /\ base_state = 1
    /\ values = <<1, 2, 0, <<0, 0>>, <<0, MaxPwm>>, <<1, MaxPwm>>>>

\* C10: in every state the shared magnitude is in [0,1023], the servo angle
\* in [0,180], every mode and every intent in {0,1,2}; a slider given a
\* value outside its range holds the nearest bound; so the snapshot that
\* would be sent keeps to the ranges of the wire schema.
PairInSchema(pair) == pair[1] \in {0, 1} /\ pair[2] \in 0..MaxPwm
C10_Ranges ==
    /\ shared_pwm \in 0..MaxPwm
    /\ shared_pwm_slider \in 0..MaxPwm
    /\ servo_angle \in 0..MaxServo
    /\ servo_slider \in 0..MaxServo
    /\ {gripper_state, roller_state} \subseteq 0..2
    /\ {base_state, shoulder_state, elbow_state} \subseteq 0..2
    /\ LET v == get_current_values IN
          /\ {v[1], v[2]} \subseteq 0..2
          /\ v[3] \in 0..MaxServo
          /\ \A i \in 4..6 : PairInSchema(v[i])

\* Both fields sit at their upper bound after a processed gamepad poll.
C10_Witness ==
    /\ shared_pwm = MaxPwm
    /\ servo_angle = MaxServo
    /\ last_gamepad_update > 0
    /\ base_state = 2

\* C11: whatever the input state, a reset (the Reset button, or START going
\* down on the gamepad) leaves every field and both sliders at the
\* defaults, so that the snapshot is [0,0,90,[0,0],[0,0],[0,0]]; a reset of
\* a state a reset has produced changes nothing.
ResetSnapshot == <<0, 0, ServoCenter, <<0, 0>>, <<0, 0>>, <<0, 0>>>>
ResetInputs ==
    /\ gripper_state = 0 /\ roller_state = 0
    /\ servo_angle = ServoCenter /\ shared_pwm = 0
    /\ base_state = 0 /\ shoulder_state = 0 /\ elbow_state = 0
    /\ servo_slider = ServoCenter /\ shared_pwm_slider = 0
StartGoesDown == 9 \in prev_buttons' /\ 9 \notin prev_buttons
C11_ResetIdempotent ==
    [][/\ (reset_all \/ StartGoesDown) =>
             (ResetInputs' /\ get_current_values' = ResetSnapshot)
       /\ (reset_all /\ ResetInputs) => UNCHANGED inputVars]_vars

\* START was down at the last processed poll and the inputs, sliders
\* included, are those a reset leaves.
C11_Witness ==
    /\ 9 \in prev_buttons
    /\ ResetInputs
    /\ get_current_values = ResetSnapshot

\* C12: with base Forward, the shared magnitude 300 and the rest at the
\* defaults, the snapshot built, and written when the write goes through,
\* is [0,0,90,[0,0],[0,0],[1,300]]; after a later reset the next tick
\* dispatches [0,0,90,[0,0],[0,0],[0,0]], and however many ticks follow
\* with the inputs left alone, nothing more is dispatched or written.
E2ESnapshot == <<0, 0, ServoCenter, <<0, 0>>, <<0, 0>>, <<1, 300>>>>
E2EInputs ==
    /\ base_state = 1 /\ shared_pwm = 300
    /\ shoulder_state = 0 /\ elbow_state = 0
    /\ gripper_state = 0 /\ roller_state = 0 /\ servo_angle = ServoCenter
C12_EndToEnd ==
    /\ [](E2EInputs => get_current_values = E2ESnapshot)
    /\ [][(gpc = "write" /\ gpc' = "plot" /\ E2EInputs) =>
             sent' = Append(sent, E2ESnapshot)]_vars
    /\ (gpc = "idle" /\ LastDispatched = E2ESnapshot
            /\ get_current_values = ResetSnapshot)
          ~> (LastDispatched = ResetSnapshot
                \/ get_current_values # ResetSnapshot \/ shutting_down)
    /\ [][(LastDispatched = ResetSnapshot /\ get_current_values = ResetSnapshot
             /\ get_current_values' = ResetSnapshot) =>
             /\ Len(dispatched') = Len(dispatched)
             /\ Len(sent') > Len(sent) => LastResult = "pending"]_vars

\* Both snapshots of the scenario were written, in that order, and the
\* driver is idle again.
C12_Witness ==
    /\ gpc = "idle"
    /\ sent = <<E2ESnapshot, ResetSnapshot>>
    /\ Len(dispatched) = 2
    /\ dispatched[2].values = ResetSnapshot
    /\ ~ENABLED update_output

\* C13: ws_connected is written on the connection thread only: a step of
\* the GUI thread (the driver tick with its send, the widget handlers,
\* closeEvent) never changes it.
GuiThreadStep == gpc' # gpc \/ inputVars' # inputVars
C13_SingleWriter ==
    [][ws_connected' # ws_connected => ~GuiThreadStep]_vars

\* C14: the loop starts a connection attempt only when the process has no
\* socket that is open or being opened: outside run_forever the socket of
\* the last attempt is closed.
NoLiveSocket == sock \in {"none", "dead"}
C14_OneConnection ==
    /\ cpc \in {"connect", "check", "wait", "except"} => NoLiveSocket
    /\ sock = "none" <=> ws = "None"

\* A new attempt is in progress after a connection that took a command.
C14_Witness ==
    /\ sock = "connecting"
    /\ wire = <<>>
    /\ sent # <<>>

\* C15: a write that raises inside send_websocket_message is caught: the
\* call gives False, ws_connected is cleared, and the tick goes on to draw
\* the pose and store the baseline; an exception in the connection loop is
\* caught and followed by a new attempt; the loop ends only on shutdown
\* and the thread only with the process.
C15_FailuresContained ==
    /\ [][(gpc = "write" /\ gpc' # gpc) =>
             \/ gpc' = "plot" /\ LastResult' = "ok"
             \/ gpc' = "except" /\ LastResult' = "failed"]_vars
    /\ [][(gpc = "except" /\ gpc' # gpc) =>
             (gpc' = "plot" /\ ~ws_connected' /\ LastResult' = "failed")]_vars
    /\ [](gpc = "except" => ENABLED send_except)
    /\ [](gpc = "plot" => ENABLED update_output_end)
    /\ [][(gpc = "plot" /\ gpc' # gpc) =>
             (gpc' = "idle" /\ last_values' = LastDispatched)]_vars
    /\ [](cpc = "except" => ENABLED except_wait)
    /\ [][(cpc = "except" /\ cpc' # cpc) => cpc' \in {"connect", "killed"}]_vars
    /\ [](cpc = "connect" => ENABLED connect_websocket)
    /\ [](cpc = "done" => shutting_down)
    /\ [](cpc = "killed" => gpc = "closed")

\* A send has failed and its tick has stored the baseline; the connection
\* loop is in its exception handler.
C15_Witness ==
    /\ gpc = "idle"
    /\ LastResult = "failed"
    /\ last_values = LastDispatched
    /\ ~ws_connected
    /\ cpc = "except"

\* C16: handling an inbound message changes nothing but the log: the input
\* fields, the sliders, the baseline and the connection state are as
\* before.
C16_InboundOnlyLogged ==
    [][logged' # logged =>
          UNCHANGED <<inputVars, last_values, ws, ws_connected, sock>>]_vars

\* C17: the step of the tick that builds the snapshot changes no input
\* field, no slider, not the baseline and nothing of the link; the
\* snapshot it holds equals, by value, the one a second build gives, there
\* and for as long as the tick lasts.
C17_BuildIsPure ==
    /\ [][(gpc = "idle" /\ gpc' = "send") =>
             /\ UNCHANGED <<inputVars, last_values, linkVars>>
             /\ values' = get_current_values
             /\ get_current_values' = get_current_values]_vars
    /\ [](InTick => get_current_values = values)

\* A tick holds a snapshot that differs from the defaults and from the
\* baseline of the tick before.
C17_Witness ==
    /\ gpc = "send"
    /\ last_values # None
    /\ values = get_current_values
    /\ values # ResetSnapshot

\* C18: closeEvent writes the notice at most once, and when it ends, the
\* loop having made an attempt, the process has no socket open or being
\* opened, whatever the link state was when it began and whether or not
\* the notice could be written.
IsNotice(frame) ==
    frame[1] = "text" /\ frame[2] = "ARM GUI Disconnecting..."
C18_ShutdownCloses ==
    /\ [](Cardinality({i \in 1..Len(wire) : IsNotice(wire[i])}) <= 1)
    /\ [][(gpc # "closed" /\ gpc' = "closed" /\ ws # "None") =>
             sock' \notin {"connecting", "open"}]_vars

\* C19: a poll that is processed advances an axis one step of the cycle
\* Stop -> Forward -> Backward -> Stop when the axis's button (B base,
\* Y shoulder, X elbow) is down and was not down at the processed poll
\* before, and leaves it alone when the button is still held or is up;
\* polls that are not processed and the end-effector controls leave the
\* axes alone; three steps of the cycle are the identity.
Processed == last_gamepad_update' # last_gamepad_update
GoesDown(i) == i \in prev_buttons' /\ i \notin prev_buttons
CycledBy(i, state) == IF GoesDown(i) THEN cycle_motor_state(state) ELSE state
C19_PressCyclesOnce ==
    /\ [][(Processed /\ ~GoesDown(9)) =>
             /\ base_state' = CycledBy(1, base_state)
             /\ shoulder_state' = CycledBy(0, shoulder_state)
             /\ elbow_state' = CycledBy(3, elbow_state)]_vars
    /\ [][~Processed =>
             UNCHANGED <<base_state, shoulder_state, elbow_state>>]_vars
    /\ [](/\ cycle_motor_state(0) = 1
          /\ cycle_motor_state(1) = 2
          /\ cycle_motor_state(2) = 0)

\* B is down at the fifth processed poll and the base is at Stop again,
\* the other axes never having moved: B went down three times.
C19_Witness ==
    /\ 1 \in prev_buttons
    /\ last_gamepad_update = MaxPadClock
    /\ base_state = 0
    /\ shoulder_state = 0
    /\ elbow_state = 0

\* C20: a processed poll changes the gripper mode only when the D-pad's
\* vertical direction was not the same at the processed poll before (or L
\* goes down), and the roller mode only when the horizontal direction was
\* not (or R goes down): a direction that stays held does not set the
\* mode again.
HatGoesTo(k) == last_hat'[k] # 0 /\ last_hat'[k] # last_hat[k]
C20_DpadEdge ==
    [][(Processed /\ ~GoesDown(9)) =>
          /\ ~(HatGoesTo(2) \/ GoesDown(10)) => gripper_state' = gripper_state
          /\ ~(HatGoesTo(1) \/ GoesDown(11)) => roller_state' = roller_state]_vars

\* C21: in a processed poll, the right trigger alone takes the shared
\* magnitude m to min(1023, m + 10) and the left trigger alone to
\* max(0, m - 10); the right bumper alone takes the wrist angle a to
\* min(180, a + 1) and the left bumper alone to max(0, a - 1); with
\* neither of a pair held the value stays.
Held(buttons) == prev_buttons' = buttons
C21_TriggerSteps ==
    [][Processed =>
          /\ Held({7}) => shared_pwm' = Min(1023, shared_pwm + 10)
          /\ Held({6}) => shared_pwm' = Max(0, shared_pwm - 10)
          /\ Held({5}) => servo_angle' = Min(180, servo_angle + 1)
          /\ Held({4}) => servo_angle' = Max(0, servo_angle - 1)
          /\ (prev_buttons' \cap {6, 7} = {} /\ ~GoesDown(9)) =>
                shared_pwm' = shared_pwm
          /\ (prev_buttons' \cap {4, 5} = {} /\ ~GoesDown(9)) =>
                servo_angle' = servo_angle]_vars

\* The right trigger was held at a processed poll and the magnitude, with
\* its slider, is at the upper bound.
C21_Witness ==
    /\ prev_buttons = {7}
    /\ last_gamepad_update > 0
    /\ shared_pwm = MaxPwm
    /\ shared_pwm_slider = MaxPwm

\* C22: a poll that comes less than 50 ms after the last processed poll
\* changes no input field and not prev_buttons; so two processed polls
\* are at least 50 ms apart, the magnitude moves by one step at most in
\* each, and a button that went down during skipped polls and is still
\* down at the next processed poll cycles its axis there, once.
PollEffect ==
    \/ inputVars' # inputVars
    \/ prev_buttons' # prev_buttons
    \/ last_gamepad_update' # last_gamepad_update
C22_RateLimit ==
    [][/\ PollEffect =>
             /\ clock - last_gamepad_update >= 50
             /\ last_gamepad_update' = clock
       /\ shared_pwm' # shared_pwm =>
             (shared_pwm' - shared_pwm) \in {10, -10}
       /\ Processed => base_state' = CycledBy(1, base_state)
       /\ ~Processed => UNCHANGED <<inputVars, prev_buttons>>]_vars

\* Two trigger steps and a press of B have been processed, the last of
\* them less than 50 ms ago: a poll now is skipped.
C22_Witness ==
    /\ RateLimited
    /\ last_gamepad_update > 0
    /\ shared_pwm = 2 * PwmStep
    /\ base_state = 1
    /\ prev_buttons = {1}

\* C23: a tick that dispatched ends with last_values equal to the snapshot
\* it built, whether its send returned True, failed or was refused; so
\* between ticks last_values is the last snapshot dispatched, which need
\* not be the last one written to the remote.
C23_BaselineIsLastBuilt ==
    /\ [][(gpc = "plot" /\ gpc' = "idle") =>
             /\ LastResult \in {"ok", "failed", "refused"}
             /\ last_values' = values
             /\ last_values' = LastDispatched]_vars
    /\ [](gpc = "idle" => last_values = LastDispatched)
    /\ [](InTick => last_values # values)

\* The first snapshot was written, the send of the second failed: the
\* baseline is the second, the remote holds the first.
C23_Witness ==
    /\ gpc = "idle"
    /\ Len(dispatched) = 2
    /\ dispatched[1].result = "ok"
    /\ dispatched[2].result = "failed"
    /\ last_values = dispatched[2].values
    /\ sent = <<dispatched[1].values>>

\* C24: whenever a connection is established (open, its on_open run) and
\* ws_connected is false, that connection has itself reported an error, a
\* close or a failed write: a failure met on an earlier connection never
\* leaves a later one marked as not connected.
Established == sock = "open" /\ cpc \in {"handshake", "running"}
C24_NoStaleDisconnect == (Established /\ ~ws_connected) => faulted

=============================================================================
